---- MODULE Spec2Model ----
(***************************************************************************)
(* Model of cub::DeviceReduce (src/cub/device/device_reduce.cuh): the      *)
(* host-side dispatcher DeviceReduceDispatch::Dispatch, the two kernel     *)
(* entry points ReduceTilesKernel and SingleTileKernel, and the CUDA       *)
(* stream on which the kernels are ordered.                                *)
(*                                                                         *)
(* One behaviour is a caller making up to MaxCalls calls of Dispatch on    *)
(* the same input, configuration and device, each call choosing the        *)
(* scratch pointer, the scratch size, the stream and the debug flag.       *)
(* The host runs Dispatch up to its first launch in one step (the code     *)
(* touches no device state before it), then one step per launch and per    *)
(* SyncStream; the device runs the kernels of each stream in order, the    *)
(* thread blocks of one kernel in any interleaving.                        *)
(*                                                                         *)
(* GridQueue, GridEvenShare, BlockReduceTiles, AliasTemporaries, CubDebug, *)
(* SyncStream and the device queries are included by the file but are not  *)
(* part of it; they are modelled from the specification's description.     *)
(***************************************************************************)
EXTENDS Integers, Sequences, FiniteSets, TLC

\* ------------------------------------------------------------------ bounds

MaxItems == 3        \* num_items ranges over 0..MaxItems
MaxCalls == 2        \* Dispatch calls made one after another by the caller
MaxPtxVersion == 360 \* PtxVersion answers range over -1..MaxPtxVersion
MaxDistance == 1600  \* large num_items lie within MaxDistance of INT_MAX

\* --------------------------------------------------------------- constants

NULL == "NULL"
Buffer == "d_temp_storage"

\* sizeof(T): the element type of the usage example is int
SizeofT == 4

\* GridQueue<int>::AllocationSize(): one counter plus bookkeeping
GridQueueAllocationSize == 8

\* alignment AliasTemporaries gives every sub-allocation
AlignBytes == 8

\* a scratch buffer larger than any the model requires
LargeBuffer == 64

\* SizeT is int: 32 bits, two's complement
IntMax == 2147483647
IntMin == -IntMax - 1

\* stream 0 is the default stream (default value of the stream argument)
DefaultStream == 0
Streams == {0, 1}

GRID_MAPPING_EVEN_SHARE == "GRID_MAPPING_EVEN_SHARE"
GRID_MAPPING_DYNAMIC == "GRID_MAPPING_DYNAMIC"

cudaSuccess == "cudaSuccess"
\* the error AliasTemporaries returns for a buffer that is too small
InvalidScratchSize == "InvalidScratchSize"
\* a kernel that could not be submitted / that failed while executing
cudaErrorInvalidConfiguration == "cudaErrorInvalidConfiguration"
cudaErrorLaunchFailure == "cudaErrorLaunchFailure"
\* what a build without CUB_RUNTIME_ENABLED returns
cudaErrorNotSupported == "cudaErrorNotSupported"
\* the codes a device query can fail with
QueryErrors == {"cudaErrorNoDevice", "cudaErrorInvalidDevice"}
Queries == {"PtxVersion", "cudaGetDevice", "cudaDeviceGetAttribute", "MaxSmOccupancy"}

\* a T nothing has written yet (T block_aggregate; a fresh memory cell);
\* every value of the input is >= 0
Unwritten == -1
\* a T that was written with the value of an uninitialised T
Undefined == -2
\* a device answer Dispatch has not asked for yet
Unqueried == -1
\* what a read of an uninitialised T can yield
UninitValues == {0, 99}
\* the stale contents of the drain queue descriptor before the first call
StaleQueues == {[fill |-> 1, counter |-> 5]}

\* the devices: multiprocessor count and the answer of MaxSmOccupancy for
\* reduce_tiles_kernel (device occupancies 0, 1, 2, 2 and 3)
Devices ==
    {[sm_count |-> 1, sm_occupancy |-> 0], [sm_count |-> 1, sm_occupancy |-> 1],
     [sm_count |-> 2, sm_occupancy |-> 1], [sm_count |-> 1, sm_occupancy |-> 2],
     [sm_count |-> 3, sm_occupancy |-> 1]}

NoKernel == [kernel |-> "none"]

\* the policies the model instantiates Dispatch with (tile sizes 1 and 2)
ReduceTilesConfigs ==
    [block_threads : {1}, items_per_thread : {1, 2},
     grid_mapping : {GRID_MAPPING_EVEN_SHARE, GRID_MAPPING_DYNAMIC}]
SingleTileConfigs ==
    [block_threads : {2}, items_per_thread : {1},
     grid_mapping : {GRID_MAPPING_EVEN_SHARE}]

\* --------------------------------------------------------- tuning policies

\* BlockReduceTilesPolicy<BLOCK_THREADS, ITEMS_PER_THREAD, VECTOR_LOAD_LENGTH,
\* BLOCK_ALGORITHM, LOAD_MODIFIER, GRID_MAPPING>, as KernelDispatchConfig::
\* Init copies it
BlockReduceTilesPolicy(threads, items, veclen, algorithm, modifier, mapping) ==
    [block_threads |-> threads, items_per_thread |-> items,
     vector_load_length |-> veclen, block_algorithm |-> algorithm,
     load_modifier |-> modifier, grid_mapping |-> mapping]

\* If<(sizeof(T) < 4), ReduceTilesPolicy1B, ReduceTilesPolicy4B>::Type
BySize(policy1B, policy4B) == IF SizeofT < 4 THEN policy1B ELSE policy4B

Policy350 ==
    [ReduceTilesPolicy |->
        BySize(BlockReduceTilesPolicy(128, 12, 1, "BLOCK_REDUCE_RAKING",
                                      "LOAD_LDG", GRID_MAPPING_DYNAMIC),
               BlockReduceTilesPolicy(512, 20, 1, "BLOCK_REDUCE_RAKING",
                                      "LOAD_DEFAULT", GRID_MAPPING_EVEN_SHARE)),
     SingleTilePolicy |->
        BlockReduceTilesPolicy(256, 8, 1, "BLOCK_REDUCE_WARP_REDUCTIONS",
                               "LOAD_DEFAULT", GRID_MAPPING_EVEN_SHARE)]

Policy300 ==
    [ReduceTilesPolicy |->
        BlockReduceTilesPolicy(256, 2, 1, "BLOCK_REDUCE_WARP_REDUCTIONS",
                               "LOAD_DEFAULT", GRID_MAPPING_EVEN_SHARE),
     SingleTilePolicy |->
        BlockReduceTilesPolicy(256, 24, 4, "BLOCK_REDUCE_WARP_REDUCTIONS",
                               "LOAD_DEFAULT", GRID_MAPPING_EVEN_SHARE)]

Policy200 ==
    [ReduceTilesPolicy |->
        BySize(BlockReduceTilesPolicy(192, 24, 4, "BLOCK_REDUCE_RAKING",
                                      "LOAD_DEFAULT", GRID_MAPPING_EVEN_SHARE),
               BlockReduceTilesPolicy(128, 8, 4, "BLOCK_REDUCE_RAKING",
                                      "LOAD_DEFAULT", GRID_MAPPING_DYNAMIC)),
     SingleTilePolicy |->
        BlockReduceTilesPolicy(192, 7, 1, "BLOCK_REDUCE_RAKING",
                               "LOAD_DEFAULT", GRID_MAPPING_EVEN_SHARE)]

Policy130 ==
    [ReduceTilesPolicy |->
        BlockReduceTilesPolicy(128, 8, 2, "BLOCK_REDUCE_RAKING",
                               "LOAD_DEFAULT", GRID_MAPPING_EVEN_SHARE),
     SingleTilePolicy |->
        BlockReduceTilesPolicy(32, 4, 4, "BLOCK_REDUCE_RAKING",
                               "LOAD_DEFAULT", GRID_MAPPING_EVEN_SHARE)]

Policy100 ==
    [ReduceTilesPolicy |->
        BlockReduceTilesPolicy(128, 8, 2, "BLOCK_REDUCE_RAKING",
                               "LOAD_DEFAULT", GRID_MAPPING_EVEN_SHARE),
     SingleTilePolicy |->
        BlockReduceTilesPolicy(32, 4, 4, "BLOCK_REDUCE_RAKING",
                               "LOAD_DEFAULT", GRID_MAPPING_EVEN_SHARE)]

\* mutant: the chain written with > instead of >=
InitDispatchConfigs_Strict(version) ==
    IF version > 350 THEN Policy350
    ELSE IF version > 300 THEN Policy300
    ELSE IF version > 200 THEN Policy200
    ELSE IF version > 130 THEN Policy130
    ELSE Policy100

\* InitDispatchConfigs(ptx_version, reduce_tiles_config, single_tile_config),
\* host side: the policy whose two members initialise the two configurations
InitDispatchConfigs(version) ==
    IF version >= 350 THEN Policy350
    ELSE IF version >= 300 THEN Policy300
    ELSE IF version >= 200 THEN Policy200
    ELSE IF version >= 130 THEN Policy130
    ELSE Policy100

\* a KernelDispatchConfig before Init has been called on it
NoConfig == BlockReduceTilesPolicy(0, 0, 0, "none", "none", "none")

\* ------------------------------------------------------------------- state

VARIABLES
    \* arguments of Dispatch
    d_temp_storage,         \* NULL or Buffer
    temp_storage_bytes,     \* size_t&, in and out
    d_in,                   \* [0..num_items-1 -> Nat]
    d_out,                  \* the one output element, or Unwritten
    num_items,
    reduction_op,           \* "Sum" or "Max"
    stream,
    debug_synchronous,
    reduce_tiles_kernel,    \* NULL or the kernel
    reduce_tiles_config,
    single_tile_config,
    ptx_version,            \* the answer of PtxVersion, Unqueried until asked
    \* the locals holding the answers of the device, Unqueried until asked
    sm_count,
    reduce_tiles_sm_occupancy,
    \* host
    pc,                     \* position of the host thread: "idle" in the caller,
                            \* "Reduce" / "Sum" in an entry point, else in Dispatch
    error,                  \* cudaError error; the returned status once pc = "idle"
    calls,                  \* number of calls made so far
    launches,               \* the <<< >>> launches of this call, in order
    syncs,                  \* SyncStream calls of this call
    failed_query,           \* the query that failed in this call and its code
    last_sizing,            \* total written by the latest sizing call, or -1
    history,                \* the outcome of the first call, once a second is made
    reduce_tiles_grid_size, \* the local of the two-pass branch (0 until set)
    allocations,            \* byte offsets bound by AliasTemporaries
    \* device
    streamq,                \* per stream, the kernels submitted and not begun
    active,                 \* per stream, the kernel executing
    blocks,                 \* thread blocks of the executing ReduceTilesKernel
    d_block_reductions,     \* the partials array
    queue,                  \* the drain queue descriptor in scratch memory
    queue_reset,            \* FillAndResetDrainKernel has run in this call
    claimed,                \* tile offsets handed out by the queue this call
    claim_count,            \* number of successful claims this call
    dev_error,              \* the sticky error of a kernel that failed executing
    last_error,             \* the error of the latest launch not submitted
    out_writes              \* writes to d_out this call

args == <<d_temp_storage, temp_storage_bytes, stream, debug_synchronous>>
\* what the calls of one behaviour work on
problem == <<d_in, num_items, reduce_tiles_kernel, reduce_tiles_config,
             single_tile_config, ptx_version>>
\* what Dispatch is given and leaves alone: the problem, the operator of
\* this call, and the record of the first call
input == <<problem, reduction_op, history>>
answers == <<sm_count, reduce_tiles_sm_occupancy>>
control == <<pc, error, calls, syncs, failed_query, last_sizing,
             reduce_tiles_grid_size, allocations>>
sched == <<streamq, active, blocks>>
memory == <<d_block_reductions, queue, queue_reset, claimed, claim_count,
            d_out, out_writes>>
errors == <<dev_error, last_error>>
vars == <<args, input, answers, control, launches, sched, memory, errors>>

\* ----------------------------------------------------------------- helpers

Min(a, b) == IF a < b THEN a ELSE b

RECURSIVE Pow2(_)
Pow2(i) == IF i = 0 THEN 1 ELSE 2 * Pow2(i - 1)

\* T operator()(const T &a, const T &b)
Op(op, a, b) == IF op = "Sum" THEN a + b ELSE IF a < b THEN b ELSE a

\* the fold of f[lo], ..., f[hi-1], lo < hi
RECURSIVE Fold(_, _, _, _)
Fold(op, f, lo, hi) ==
    IF hi = lo + 1 THEN f[lo] ELSE Op(op, Fold(op, f, lo, hi - 1), f[hi - 1])

\* the inputs: items with pairwise different sums, 1, 2, 4, ...
InputArrays(n) == {[i \in 0..(n - 1) |-> Pow2(i)]}

\* --------------------------------------------- host arithmetic of Dispatch

\* int tile_size = block_threads * items_per_thread
tile_size ==
    reduce_tiles_config.block_threads * reduce_tiles_config.items_per_thread

\* mutant: the comparison written with < instead of <=
SingleTileBranch_Strict ==
    (reduce_tiles_kernel = NULL) \/ (num_items < tile_size)

\* mutant: an empty input sent to the two-pass branch
SingleTileBranch_NonEmpty ==
    (reduce_tiles_kernel = NULL) \/ (0 < num_items /\ num_items <= tile_size)

\* (reduce_tiles_kernel == NULL) || (num_items <= tile_size)
SingleTileBranch ==
    (reduce_tiles_kernel = NULL) \/ (num_items <= tile_size)

\* int reduce_tiles_occupancy = reduce_tiles_sm_occupancy * sm_count
reduce_tiles_occupancy == reduce_tiles_sm_occupancy * sm_count

\* int subscription_factor = reduce_tiles_sm_occupancy
subscription_factor == reduce_tiles_sm_occupancy

\* (num_items + granularity - 1) / granularity
NumTiles(n, granularity) == (n + granularity - 1) \div granularity

\* GridEvenShare<SizeT>(num_items, max_grid_size, schedule_granularity):
\* every block a contiguous run of tiles_per_group whole tiles, the last
\* block the short remainder, grid_size <= max_grid_size
GridEvenShare(n, max_grid_size, granularity) ==
    LET total == NumTiles(n, granularity)
        g0 == Min(total, max_grid_size)
        per == IF g0 = 0 THEN 0 ELSE (total + g0 - 1) \div g0
    IN  [num_items |-> n,
         granularity |-> granularity,
         tiles_per_group |-> per,
         grid_size |-> IF per = 0 THEN 0 ELSE (total + per - 1) \div per]

\* mutant: the descriptor built with a granularity of one item
even_share_ItemGranularity ==
    GridEvenShare(num_items, reduce_tiles_occupancy * subscription_factor, 1)

even_share ==
    GridEvenShare(num_items, reduce_tiles_occupancy * subscription_factor,
                  tile_size)

\* a + b in int overflows
Overflows(a, b) ==
    \/ b > 0 /\ a > IntMax - b
    \/ b < 0 /\ a < IntMin - b

\* a + b in int as the hardware adds: modulo 2^32
Add32(a, b) ==
    IF b > 0 /\ a > IntMax - b THEN IntMin + (a - (IntMax - b) - 1)
    ELSE IF b < 0 /\ a < IntMin - b THEN IntMax - ((IntMin - b) - a - 1)
    ELSE a + b

\* a / b in int, b > 0: the quotient truncated towards zero
Div32(a, b) == IF a >= 0 THEN a \div b ELSE (a + b - 1) \div b

\* int num_tiles = (num_items + tile_size - 1) / tile_size
num_tiles ==
    Div32(Add32(Add32(num_items, tile_size), -1), tile_size)

\* the values num_tiles can take: signed overflow in num_items + tile_size
\* is undefined, so a build may add modulo 2^32 or may compute the quotient
\* as if the sum had not overflowed
NumTilesOutcomes ==
    {num_tiles} \cup
    (IF Overflows(num_items, tile_size)
     THEN {num_items \div tile_size
               + (IF num_items % tile_size = 0 THEN 0 ELSE 1)}
     ELSE {})

\* (num_tiles < reduce_tiles_occupancy) ? num_tiles : reduce_tiles_occupancy
DynamicGridSize(tiles) ==
    IF tiles < reduce_tiles_occupancy THEN tiles ELSE reduce_tiles_occupancy

\* mutant: the dynamic grid sized against the oversubscribed occupancy
ReduceTilesGridSize_Oversubscribed ==
    IF reduce_tiles_config.grid_mapping = GRID_MAPPING_EVEN_SHARE
    THEN even_share.grid_size
    ELSE Min(num_tiles, reduce_tiles_occupancy * subscription_factor)

\* the switch on reduce_tiles_config.grid_mapping
ReduceTilesGridSize ==
    IF reduce_tiles_config.grid_mapping = GRID_MAPPING_EVEN_SHARE
    THEN even_share.grid_size
    ELSE DynamicGridSize(num_tiles)

\* mutant: the queue descriptor is added to the requirements only after
\* the return of the sizing query
allocation_sizes_QueueAfterSizing ==
    <<ReduceTilesGridSize * SizeofT,
      IF d_temp_storage = NULL THEN 0 ELSE GridQueueAllocationSize>>

\* mutant: the queue descriptor is left out of the requirements when a
\* buffer is bound
allocation_sizes_QueueOnlySizing ==
    <<ReduceTilesGridSize * SizeofT,
      IF d_temp_storage = NULL THEN GridQueueAllocationSize ELSE 0>>

\* mutant: the partials counted in elements, without sizeof(T)
allocation_sizes_Elements ==
    <<ReduceTilesGridSize, GridQueueAllocationSize>>

\* size_t allocation_sizes[2]
allocation_sizes ==
    <<ReduceTilesGridSize * SizeofT, GridQueueAllocationSize>>

AlignUp(bytes) == ((bytes + AlignBytes - 1) \div AlignBytes) * AlignBytes

\* AliasTemporaries, plan: the size of the blob and the offset of each slice
AliasBytesNeeded(sizes) == AlignUp(sizes[1]) + AlignUp(sizes[2])
AliasOffsets(sizes) == <<0, AlignUp(sizes[1])>>

\* ------------------------------------------------------------------- Init

Init ==
    /\ d_temp_storage = NULL
    /\ temp_storage_bytes = 0
    /\ num_items \in 0..MaxItems
    /\ d_in \in InputArrays(num_items)
    /\ d_out = Unwritten
    /\ reduction_op \in {"Sum", "Max"}
    /\ history = <<>>
    /\ stream = DefaultStream
    /\ debug_synchronous = FALSE
    /\ reduce_tiles_kernel \in {NULL, "ReduceTilesKernel"}
    /\ reduce_tiles_config \in ReduceTilesConfigs
    /\ single_tile_config \in SingleTileConfigs
    /\ ptx_version = Unqueried
    /\ sm_count = Unqueried
    /\ reduce_tiles_sm_occupancy = Unqueried
    /\ pc = "idle"
    /\ error = cudaSuccess
    /\ calls = 0
    /\ launches = <<>>
    /\ syncs = 0
    /\ failed_query = <<>>
    /\ last_sizing = -1
    /\ reduce_tiles_grid_size = 0
    /\ allocations = <<>>
    /\ streamq = [s \in Streams |-> <<>>]
    /\ active = [s \in Streams |-> NoKernel]
    /\ blocks = <<>>
    /\ d_block_reductions = <<>>
    /\ queue \in StaleQueues
    /\ queue_reset = FALSE
    /\ claimed = {}
    /\ claim_count = 0
    /\ dev_error = cudaSuccess
    /\ last_error = cudaSuccess
    /\ out_writes = 0

\* ------------------------------------------------------------------- host

StreamIdle(s) == streamq[s] = <<>> /\ active[s] = NoKernel
DeviceIdle == \A s \in Streams : StreamIdle(s)

\* what a call that has returned leaves for the record: whether it was a
\* sizing query that succeeded
Outcome ==
    IF d_temp_storage = NULL /\ error = cudaSuccess
    THEN "sizing"
    ELSE "other"

\* DeviceReduceDispatch<..., ReductionOp>::Dispatch(d_temp_storage,
\* temp_storage_bytes, d_in, d_out, num_items, reduction_op, stream,
\* debug_synchronous) is entered: the caller picked the scratch pointer and
\* size (what the previous call left in temp_storage_bytes, one byte less,
\* or a large buffer), the operator, the stream and the debug flag, with a
\* fresh output cell.  The caller waits for the device before it calls
\* again, and Reduce is given the same operator in every call.
Call(ptr, bytes, op, s, dbg) ==
    /\ pc = "idle"
    /\ calls < MaxCalls
    /\ DeviceIdle
    /\ ptr = NULL => bytes = temp_storage_bytes
    /\ d_temp_storage' = ptr
    /\ temp_storage_bytes' = bytes
    /\ stream' = s
    /\ debug_synchronous' = dbg
    /\ reduction_op' = op
    /\ history' = IF calls = 1 THEN <<Outcome>> ELSE history
    /\ error' = cudaSuccess
    /\ calls' = calls + 1
    /\ launches' = <<>>
    /\ syncs' = 0
    /\ failed_query' = <<>>
    /\ reduce_tiles_grid_size' = 0
    /\ allocations' = <<>>
    /\ d_block_reductions' = <<>>
    /\ blocks' = <<>>
    /\ d_out' = Unwritten
    /\ out_writes' = 0
    /\ queue_reset' = FALSE
    /\ claimed' = {}
    /\ claim_count' = 0
    /\ dev_error' = cudaSuccess
    /\ last_error' = cudaSuccess
    /\ UNCHANGED <<problem, answers, last_sizing, streamq, active, queue>>

\* mutant: Sum instantiating Dispatch with another operator of
\* thread_operators.cuh
Sum_Max(ptr, bytes, s, dbg) ==
    /\ Call(ptr, bytes, "Max", s, dbg)
    /\ pc' = "Sum"

\* DeviceReduce::Reduce: return DeviceReduceDispatch<..., ReductionOp>::
\* Dispatch(..., reduction_op, stream, debug_synchronous)
Reduce(ptr, bytes, op, s, dbg) ==
    /\ Call(ptr, bytes, op, s, dbg)
    /\ pc' = "Reduce"

\* DeviceReduce::Sum: return DeviceReduceDispatch<..., cub::Sum>::
\* Dispatch(..., cub::Sum(), stream, debug_synchronous)
Sum(ptr, bytes, s, dbg) ==
    /\ Call(ptr, bytes, "Sum", s, dbg)
    /\ pc' = "Sum"

\* the host is in an entry point, at its call of Dispatch
InEntry == pc \in {"Reduce", "Sum"}

\* mutant: the #ifndef placed after the sizing return of the branch
DispatchNotSupported_AfterSizing ==
    /\ InEntry
    /\ IF d_temp_storage = NULL
       THEN /\ temp_storage_bytes' = 1
            /\ last_sizing' = 1
            /\ UNCHANGED error
       ELSE /\ error' = cudaErrorNotSupported
            /\ UNCHANGED <<temp_storage_bytes, last_sizing>>
    /\ pc' = "idle"
    /\ UNCHANGED <<d_temp_storage, stream, debug_synchronous, input, answers,
                   calls, syncs, failed_query, reduce_tiles_grid_size,
                   allocations, launches, sched, memory, errors>>

\* #ifndef CUB_RUNTIME_ENABLED: return CubDebug(cudaErrorNotSupported)
DispatchNotSupported ==
    /\ InEntry
    /\ error' = cudaErrorNotSupported
    /\ pc' = "idle"
    /\ UNCHANGED <<args, input, answers, calls, syncs, failed_query,
                   last_sizing, reduce_tiles_grid_size, allocations, launches,
                   sched, memory, errors>>

\* the queries Dispatch makes: PtxVersion before the branch, the other
\* three inside the two-pass branch
QueriesMade ==
    IF SingleTileBranch THEN {"PtxVersion"} ELSE Queries

\* mutant: if (CubDebug(<query>)) break;  -- the code is not kept in error
DispatchQueryFailure_Swallowed(q, code) ==
    /\ InEntry
    /\ q \in QueriesMade
    /\ failed_query' = <<q, code>>
    /\ pc' = "idle"
    /\ UNCHANGED <<args, input, answers, error, calls, syncs, last_sizing,
                   reduce_tiles_grid_size, allocations, launches, sched,
                   memory, errors>>

\* if (CubDebug(error = <query>)) break;  -- the query fails with `code`
DispatchQueryFailure(q, code) ==
    /\ InEntry
    /\ q \in QueriesMade
    /\ error' = code
    /\ failed_query' = <<q, code>>
    /\ pc' = "idle"
    /\ UNCHANGED <<args, input, answers, calls, syncs, last_sizing,
                   reduce_tiles_grid_size, allocations, launches, sched,
                   memory, errors>>

\* mutant: the single-tile branch without its return for a NULL pointer
DispatchSingleTile_NoSizingReturn ==
    /\ InEntry
    /\ SingleTileBranch
    /\ pc' = "launch_single"
    /\ UNCHANGED <<args, input, answers, error, calls, syncs, failed_query,
                   last_sizing, reduce_tiles_grid_size, allocations, launches,
                   sched, memory, errors>>

\* mutant: temp_storage_bytes += 1 in the sizing return of the branch
DispatchSingleTile_Accumulate ==
    /\ InEntry
    /\ SingleTileBranch
    /\ IF d_temp_storage = NULL
       THEN /\ temp_storage_bytes' = temp_storage_bytes + 1
            /\ last_sizing' = temp_storage_bytes + 1
            /\ pc' = "idle"
       ELSE /\ pc' = "launch_single"
            /\ UNCHANGED <<temp_storage_bytes, last_sizing>>
    /\ UNCHANGED <<d_temp_storage, stream, debug_synchronous, input, answers,
                   error, calls, syncs, failed_query, reduce_tiles_grid_size,
                   allocations, launches, sched, memory, errors>>

\* the single-tile branch up to the launch of single_kernel
DispatchSingleTile ==
    /\ InEntry
    /\ SingleTileBranch
    /\ IF d_temp_storage = NULL
       THEN /\ temp_storage_bytes' = 1
            /\ last_sizing' = 1
            /\ pc' = "idle"
       ELSE /\ pc' = "launch_single"
            /\ UNCHANGED <<temp_storage_bytes, last_sizing>>
    /\ UNCHANGED <<d_temp_storage, stream, debug_synchronous, input, answers,
                   error, calls, syncs, failed_query, reduce_tiles_grid_size,
                   allocations, launches, sched, memory, errors>>

\* the two-pass branch, its queries: cudaGetDevice, cudaDeviceGetAttribute
\* and MaxSmOccupancy succeed; a device gives the same answers every time
DispatchDeviceQueries(dev) ==
    /\ InEntry
    /\ ~SingleTileBranch
    /\ sm_count \in {Unqueried, dev.sm_count}
    /\ reduce_tiles_sm_occupancy \in {Unqueried, dev.sm_occupancy}
    /\ sm_count' = dev.sm_count
    /\ reduce_tiles_sm_occupancy' = dev.sm_occupancy
    /\ pc' = "plan"
    /\ UNCHANGED <<args, input, error, calls, syncs, failed_query,
                   last_sizing, reduce_tiles_grid_size, allocations, launches,
                   sched, memory, errors>>

\* mutant: the queue is prepared whatever the grid mapping
PrepareDrainNeeded_Always == TRUE

\* if (reduce_tiles_config.grid_mapping == GRID_MAPPING_DYNAMIC)
PrepareDrainNeeded ==
    reduce_tiles_config.grid_mapping = GRID_MAPPING_DYNAMIC

\* the two-pass branch from its queries up to its first launch: grid size,
\* allocation sizes, AliasTemporaries (which sets the size when the pointer
\* is NULL, fails when the buffer is too small, else binds the two slices)
DispatchTwoPass ==
    /\ pc = "plan"
    /\ reduce_tiles_grid_size' = ReduceTilesGridSize
    /\ IF d_temp_storage = NULL
       THEN /\ temp_storage_bytes' = AliasBytesNeeded(allocation_sizes)
            /\ last_sizing' = AliasBytesNeeded(allocation_sizes)
            /\ pc' = "idle"
            /\ UNCHANGED <<error, allocations, d_block_reductions>>
       ELSE IF temp_storage_bytes < AliasBytesNeeded(allocation_sizes)
       THEN /\ error' = InvalidScratchSize
            /\ pc' = "idle"
            /\ UNCHANGED <<temp_storage_bytes, last_sizing, allocations,
                           d_block_reductions>>
       ELSE /\ allocations' = AliasOffsets(allocation_sizes)
            /\ d_block_reductions' =
                   [b \in 0..(ReduceTilesGridSize - 1) |-> Unwritten]
            /\ pc' = IF PrepareDrainNeeded
                     THEN "launch_drain"
                     ELSE "launch_reduce"
            /\ UNCHANGED <<temp_storage_bytes, last_sizing, error>>
    /\ UNCHANGED <<d_temp_storage, stream, debug_synchronous, input, answers,
                   calls, syncs, failed_query, launches, sched, queue,
                   queue_reset, claimed, claim_count, d_out, out_writes,
                   errors>>

\* ------------------------------------------------------ launches and syncs

\* kernel<<<grid, block, 0, s>>>(...): the launch is recorded; a launch of
\* no blocks cannot be submitted, any other launch may fail to be; a launch
\* that fails leaves its error for cudaGetLastError, which Dispatch never
\* calls
Submit(kernel, grid, block, s, arg, ok) ==
    LET k == [kernel |-> kernel, grid |-> grid, block |-> block,
              stream |-> s, arg |-> arg, ok |-> ok]
    IN  /\ grid = 0 => ~ok
        /\ launches' = Append(launches, k)
        /\ IF ok
           THEN /\ streamq' = [streamq EXCEPT ![s] = Append(@, k)]
                /\ UNCHANGED last_error
           ELSE /\ last_error' = cudaErrorInvalidConfiguration
                /\ UNCHANGED streamq

\* mutant: no launch is followed by a SyncStream
AfterLaunch_NoSync(sync, next) == next

\* where Dispatch goes after a launch: to the SyncStream that follows it
\* when debug_synchronous, else on to the next statement
AfterLaunch(sync, next) == IF debug_synchronous THEN sync ELSE next

\* single_kernel<<<1, single_tile_config.block_threads>>>(d_in, d_out,
\* num_items, reduction_op): no stream argument, so the default stream
SingleKernelStream == DefaultStream

LaunchSingle(ok) ==
    /\ pc = "launch_single"
    /\ Submit("single_kernel", 1, single_tile_config.block_threads,
              SingleKernelStream, num_items, ok)
    /\ pc' = AfterLaunch("sync_single", "idle")
    /\ UNCHANGED <<args, input, answers, error, calls, syncs, failed_query,
                   last_sizing, reduce_tiles_grid_size, allocations, active,
                   blocks, memory, dev_error>>

\* mutant: the queue is primed with the number of tiles
DrainFillSize_Tiles == num_tiles

\* mutant: the queue is primed with the grid size
DrainFillSize_GridSize == reduce_tiles_grid_size

\* the argument Dispatch hands to prepare_drain_kernel(queue, num_items)
DrainFillSize == num_items

\* mutant: the launch of prepare_drain_kernel without its stream argument
PrepareDrainStream_Default == DefaultStream

\* mutant: the launch of aggregate_kernel without its stream argument
AggregateStream_Default == DefaultStream

\* the stream argument of the three launches of the two-pass branch
PrepareDrainStream == stream
ReduceTilesStream == stream
AggregateStream == stream

\* mutant: the queue prepared by the first call only, not once per call
LaunchPrepareDrain_FirstCallOnly(ok) ==
    /\ pc = "launch_drain"
    /\ IF calls = 1
       THEN /\ Submit("prepare_drain_kernel", 1, 1, PrepareDrainStream,
                      DrainFillSize, ok)
            /\ pc' = AfterLaunch("sync_drain", "launch_reduce")
       ELSE /\ pc' = "launch_reduce"
            /\ UNCHANGED <<launches, streamq, last_error>>
    /\ UNCHANGED <<args, input, answers, error, calls, syncs, failed_query,
                   last_sizing, reduce_tiles_grid_size, allocations, active,
                   blocks, memory, dev_error>>

\* prepare_drain_kernel<<<1, 1, 0, stream>>>(queue, num_items)
LaunchPrepareDrain(ok) ==
    /\ pc = "launch_drain"
    /\ Submit("prepare_drain_kernel", 1, 1, PrepareDrainStream,
              DrainFillSize, ok)
    /\ pc' = AfterLaunch("sync_drain", "launch_reduce")
    /\ UNCHANGED <<args, input, answers, error, calls, syncs, failed_query,
                   last_sizing, reduce_tiles_grid_size, allocations, active,
                   blocks, memory, dev_error>>

\* reduce_tiles_kernel<<<reduce_tiles_grid_size, block_threads, 0, stream>>>
LaunchReduceTiles(ok) ==
    /\ pc = "launch_reduce"
    /\ Submit("reduce_tiles_kernel", reduce_tiles_grid_size,
              reduce_tiles_config.block_threads, ReduceTilesStream,
              num_items, ok)
    /\ pc' = AfterLaunch("sync_reduce", "launch_aggregate")
    /\ UNCHANGED <<args, input, answers, error, calls, syncs, failed_query,
                   last_sizing, reduce_tiles_grid_size, allocations, active,
                   blocks, memory, dev_error>>

\* mutant: aggregate_kernel given the number of tiles
AggregateItems_NumTiles == num_tiles

\* the item count Dispatch hands to aggregate_kernel
AggregateItems == reduce_tiles_grid_size

\* mutant: aggregate_kernel launched with the grid of the partial reduction
LaunchAggregate_ReduceGrid(ok) ==
    /\ pc = "launch_aggregate"
    /\ Submit("aggregate_kernel", reduce_tiles_grid_size,
              single_tile_config.block_threads, AggregateStream,
              AggregateItems, ok)
    /\ pc' = AfterLaunch("sync_aggregate", "idle")
    /\ UNCHANGED <<args, input, answers, error, calls, syncs, failed_query,
                   last_sizing, reduce_tiles_grid_size, allocations, active,
                   blocks, memory, dev_error>>

\* aggregate_kernel<<<1, single_tile_config.block_threads, 0, stream>>>(
\* d_block_reductions, d_out, reduce_tiles_grid_size, reduction_op)
LaunchAggregate(ok) ==
    /\ pc = "launch_aggregate"
    /\ Submit("aggregate_kernel", 1, single_tile_config.block_threads,
              AggregateStream, AggregateItems, ok)
    /\ pc' = AfterLaunch("sync_aggregate", "idle")
    /\ UNCHANGED <<args, input, answers, error, calls, syncs, failed_query,
                   last_sizing, reduce_tiles_grid_size, allocations, active,
                   blocks, memory, dev_error>>

\* SyncStream(stream): waits until the stream has run everything submitted
\* to it, then reports the error of a kernel that failed while executing
SyncStreamResult == dev_error

\* the statement after each SyncStream that succeeds
AfterSync ==
    [sync_single |-> "idle", sync_drain |-> "launch_reduce",
     sync_reduce |-> "launch_aggregate", sync_aggregate |-> "idle"]

\* if (debug_synchronous && (CubDebug(error = SyncStream(stream)))) break;
SyncStream ==
    /\ pc \in DOMAIN AfterSync
    /\ StreamIdle(stream)
    /\ syncs' = syncs + 1
    /\ error' = SyncStreamResult
    /\ pc' = IF SyncStreamResult # cudaSuccess THEN "idle" ELSE AfterSync[pc]
    /\ UNCHANGED <<args, input, answers, calls, failed_query, last_sizing,
                   reduce_tiles_grid_size, allocations, launches, sched,
                   memory, errors>>

\* ----------------------------------------------------------------- device

\* the head of a stream begins once the kernel before it has retired
KernelStart(s) ==
    /\ streamq[s] # <<>>
    /\ active[s] = NoKernel
    /\ active' = [active EXCEPT ![s] = Head(streamq[s])]
    /\ streamq' = [streamq EXCEPT ![s] = Tail(@)]
    /\ blocks' = IF Head(streamq[s]).kernel = "reduce_tiles_kernel"
                 THEN [b \in 0..(Head(streamq[s]).grid - 1) |->
                          [pc |-> "consume", block_aggregate |-> Unwritten]]
                 ELSE blocks
    /\ UNCHANGED <<args, input, answers, control, launches, memory, errors>>

\* the head of a stream fails while executing: it writes nothing and leaves
\* its error in the device context
KernelFault(s) ==
    /\ streamq[s] # <<>>
    /\ active[s] = NoKernel
    /\ streamq' = [streamq EXCEPT ![s] = Tail(@)]
    /\ dev_error' = cudaErrorLaunchFailure
    /\ UNCHANGED <<args, input, answers, control, launches, active, blocks,
                   memory, last_error>>

\* FillAndResetDrainKernel(queue, num_items): one thread sets the fill size
\* and zeroes the counter
FillAndResetDrainKernel(s) ==
    /\ active[s].kernel = "prepare_drain_kernel"
    /\ queue' = [fill |-> active[s].arg, counter |-> 0]
    /\ queue_reset' = TRUE
    /\ active' = [active EXCEPT ![s] = NoKernel]
    /\ UNCHANGED <<args, input, answers, control, launches, streamq, blocks,
                   d_block_reductions, claimed, claim_count, d_out,
                   out_writes, errors>>

\* the aggregate of the items at offsets lo..hi-1 folded into a running
\* aggregate that may still be uninitialised
FoldInto(agg, lo, hi) ==
    IF agg = Unwritten
    THEN Fold(reduction_op, d_in, lo, hi)
    ELSE Op(reduction_op, agg, Fold(reduction_op, d_in, lo, hi))

\* what d_out[blockIdx.x] = block_aggregate stores: the aggregate, or
\* whatever the uninitialised local holds when no tile was consumed
Stored(agg) == IF agg = Unwritten THEN Undefined ELSE agg

\* ReduceTilesKernel, even-share mapping: the block consumes its run of
\* tiles and writes its aggregate to d_out[blockIdx.x]
ReduceTilesEvenShare(s, b) ==
    /\ active[s].kernel = "reduce_tiles_kernel"
    /\ reduce_tiles_config.grid_mapping = GRID_MAPPING_EVEN_SHARE
    /\ b \in DOMAIN blocks
    /\ blocks[b].pc = "consume"
    /\ LET share == even_share.tiles_per_group * tile_size
           lo == b * share
           hi == Min(lo + share, num_items)
           agg == IF lo < hi THEN FoldInto(Unwritten, lo, hi) ELSE Unwritten
       IN  /\ d_block_reductions' =
                  [d_block_reductions EXCEPT ![b] = Stored(agg)]
           /\ blocks' = [blocks EXCEPT ![b] =
                            [pc |-> "done", block_aggregate |-> agg]]
    /\ UNCHANGED <<args, input, answers, control, launches, streamq, active,
                   queue, queue_reset, claimed, claim_count, d_out,
                   out_writes, errors>>

\* GridQueue claim: an atomic fetch-and-add of one tile on the counter,
\* capped at the fill size; exhausted once the counter has reached it
QueueExhausted == queue.counter >= queue.fill

\* ReduceTilesKernel, dynamic mapping: the block claims the next tile and
\* folds it into its running aggregate
ReduceTilesClaim(s, b) ==
    /\ active[s].kernel = "reduce_tiles_kernel"
    /\ reduce_tiles_config.grid_mapping = GRID_MAPPING_DYNAMIC
    /\ b \in DOMAIN blocks
    /\ blocks[b].pc = "consume"
    /\ ~QueueExhausted
    /\ queue' = [queue EXCEPT !.counter = @ + tile_size]
    /\ claimed' = claimed \cup {queue.counter}
    /\ claim_count' = claim_count + 1
    /\ blocks' = [blocks EXCEPT ![b].block_aggregate =
                     FoldInto(@, queue.counter,
                              Min(queue.counter + tile_size, num_items))]
    /\ UNCHANGED <<args, input, answers, control, launches, streamq, active,
                   d_block_reductions, queue_reset, d_out, out_writes,
                   errors>>

\* mutant: d_out[0] = block_aggregate
ReduceTilesOutput_BlockZero(s, b) ==
    /\ active[s].kernel = "reduce_tiles_kernel"
    /\ reduce_tiles_config.grid_mapping = GRID_MAPPING_DYNAMIC
    /\ b \in DOMAIN blocks
    /\ blocks[b].pc = "consume"
    /\ QueueExhausted
    /\ d_block_reductions' =
           [d_block_reductions EXCEPT ![0] = Stored(blocks[b].block_aggregate)]
    /\ blocks' = [blocks EXCEPT ![b].pc = "done"]
    /\ UNCHANGED <<args, input, answers, control, launches, streamq, active,
                   queue, queue_reset, claimed, claim_count, d_out,
                   out_writes, errors>>

\* mutant: a block stores its aggregate only once another block has
ReduceTilesOutput_AwaitPeer(s, b) ==
    /\ active[s].kernel = "reduce_tiles_kernel"
    /\ reduce_tiles_config.grid_mapping = GRID_MAPPING_DYNAMIC
    /\ b \in DOMAIN blocks
    /\ blocks[b].pc = "consume"
    /\ QueueExhausted
    /\ \E c \in DOMAIN blocks \ {b} : blocks[c].pc = "done"
    /\ d_block_reductions' =
           [d_block_reductions EXCEPT ![b] = Stored(blocks[b].block_aggregate)]
    /\ blocks' = [blocks EXCEPT ![b].pc = "done"]
    /\ UNCHANGED <<args, input, answers, control, launches, streamq, active,
                   queue, queue_reset, claimed, claim_count, d_out,
                   out_writes, errors>>

\* ReduceTilesKernel, dynamic mapping: the block finds the queue exhausted
\* and writes its aggregate to d_out[blockIdx.x]
ReduceTilesOutput(s, b) ==
    /\ active[s].kernel = "reduce_tiles_kernel"
    /\ reduce_tiles_config.grid_mapping = GRID_MAPPING_DYNAMIC
    /\ b \in DOMAIN blocks
    /\ blocks[b].pc = "consume"
    /\ QueueExhausted
    /\ d_block_reductions' =
           [d_block_reductions EXCEPT ![b] = Stored(blocks[b].block_aggregate)]
    /\ blocks' = [blocks EXCEPT ![b].pc = "done"]
    /\ UNCHANGED <<args, input, answers, control, launches, streamq, active,
                   queue, queue_reset, claimed, claim_count, d_out,
                   out_writes, errors>>

\* mutant: the retiring kernel rewinds the queue for the next run
ReduceTilesRetire_Rewind(s) ==
    /\ active[s].kernel = "reduce_tiles_kernel"
    /\ \A b \in DOMAIN blocks : blocks[b].pc = "done"
    /\ active' = [active EXCEPT ![s] = NoKernel]
    /\ queue' = [queue EXCEPT !.counter = 0]
    /\ UNCHANGED <<args, input, answers, control, launches, streamq, blocks,
                   d_block_reductions, queue_reset, claimed, claim_count,
                   d_out, out_writes, errors>>

\* the kernel retires when all of its blocks have
ReduceTilesRetire(s) ==
    /\ active[s].kernel = "reduce_tiles_kernel"
    /\ \A b \in DOMAIN blocks : blocks[b].pc = "done"
    /\ active' = [active EXCEPT ![s] = NoKernel]
    /\ UNCHANGED <<args, input, answers, control, launches, streamq, blocks,
                   memory, errors>>

\* what SingleTileKernel stores for the n items of src: their fold, or any
\* value when n = 0 or an item it reads holds no defined value
SingleTileResults(src, n) ==
    IF n = 0 \/ (\E i \in 0..(n - 1) : src[i] \in {Unwritten, Undefined})
    THEN UninitValues
    ELSE {Fold(reduction_op, src, 0, n)}

\* SingleTileKernel: one block consumes items 0..num_items-1 of its input
\* (d_in, or the partials array) and writes d_out[0]
SingleTileKernel(s) ==
    /\ active[s].kernel \in {"single_kernel", "aggregate_kernel"}
    /\ LET src == IF active[s].kernel = "single_kernel"
                  THEN d_in ELSE d_block_reductions
       IN  \E v \in SingleTileResults(src, active[s].arg) : d_out' = v
    /\ out_writes' = out_writes + 1
    /\ active' = [active EXCEPT ![s] = NoKernel]
    /\ UNCHANGED <<args, input, answers, control, launches, streamq, blocks,
                   d_block_reductions, queue, queue_reset, claimed,
                   claim_count, errors>>

\* ------------------------------------------------------------------- Next

\* the scratch sizes a caller passes: what the previous call left in
\* temp_storage_bytes, one byte less than the latest sizing query returned,
\* or a large buffer
CallBytes == {temp_storage_bytes, LargeBuffer} \cup
             (IF last_sizing > 0 THEN {last_sizing - 1} ELSE {})

Next ==
    \/ \E ptr \in {NULL, Buffer}, bytes \in CallBytes, s \in Streams,
          dbg \in BOOLEAN : Reduce(ptr, bytes, reduction_op, s, dbg)
    \/ \E ptr \in {NULL, Buffer}, bytes \in CallBytes, s \in Streams,
          dbg \in BOOLEAN : reduction_op = "Sum" /\ Sum(ptr, bytes, s, dbg)
    \/ \E q \in Queries, code \in QueryErrors : DispatchQueryFailure(q, code)
    \/ DispatchSingleTile
    \/ \E dev \in Devices : DispatchDeviceQueries(dev)
    \/ DispatchTwoPass
    \/ \E ok \in BOOLEAN : LaunchSingle(ok)
    \/ \E ok \in BOOLEAN : LaunchPrepareDrain(ok)
    \/ \E ok \in BOOLEAN : LaunchReduceTiles(ok)
    \/ \E ok \in BOOLEAN : LaunchAggregate(ok)
    \/ SyncStream
    \/ \E s \in Streams : KernelStart(s)
    \/ \E s \in Streams : KernelFault(s)
    \/ \E s \in Streams : FillAndResetDrainKernel(s)
    \/ \E s \in Streams, b \in 0..(MaxItems - 1) : ReduceTilesEvenShare(s, b)
    \/ \E s \in Streams, b \in 0..(MaxItems - 1) : ReduceTilesClaim(s, b)
    \/ \E s \in Streams, b \in 0..(MaxItems - 1) : ReduceTilesOutput(s, b)
    \/ \E s \in Streams : ReduceTilesRetire(s)
    \/ \E s \in Streams : SingleTileKernel(s)

Spec == Init /\ [][Next]_vars

\* the host thread inside a call: it runs until Dispatch returns
HostStep ==
    \/ \E q \in Queries, code \in QueryErrors : DispatchQueryFailure(q, code)
    \/ DispatchSingleTile
    \/ \E dev \in Devices : DispatchDeviceQueries(dev)
    \/ DispatchTwoPass
    \/ \E ok \in BOOLEAN : LaunchSingle(ok)
    \/ \E ok \in BOOLEAN : LaunchPrepareDrain(ok)
    \/ \E ok \in BOOLEAN : LaunchReduceTiles(ok)
    \/ \E ok \in BOOLEAN : LaunchAggregate(ok)
    \/ SyncStream

\* the device on stream s: the head of the stream begins (or fails), and a
\* kernel whose work is done retires
StreamStep(s) ==
    \/ KernelStart(s)
    \/ KernelFault(s)
    \/ FillAndResetDrainKernel(s)
    \/ ReduceTilesRetire(s)
    \/ SingleTileKernel(s)

\* thread block b of the partial reduction
BlockStep(b) ==
    \E s \in Streams :
        \/ ReduceTilesEvenShare(s, b)
        \/ ReduceTilesClaim(s, b)
        \/ ReduceTilesOutput(s, b)

\* the host thread keeps running, every stream is served, and every thread
\* block of a running kernel is scheduled
Fairness ==
    /\ WF_vars(HostStep)
    /\ \A s \in Streams : WF_vars(StreamStep(s))
    /\ \A b \in 0..(MaxItems - 1) : WF_vars(BlockStep(b))

\* one call of a caller, from every problem and device, run to its end
NextFair ==
    \/ \E ptr \in {NULL, Buffer}, bytes \in CallBytes, s \in Streams,
          dbg \in BOOLEAN :
            calls = 0 /\ Reduce(ptr, bytes, reduction_op, s, dbg)
    \/ \E ptr \in {NULL, Buffer}, bytes \in CallBytes, s \in Streams,
          dbg \in BOOLEAN :
            calls = 0 /\ reduction_op = "Sum" /\ Sum(ptr, bytes, s, dbg)
    \/ HostStep
    \/ \E s \in Streams : StreamStep(s)
    \/ \E b \in 0..(MaxItems - 1) : BlockStep(b)

SpecFair == Init /\ [][NextFair]_vars /\ Fairness

\* the build without CUB_RUNTIME_ENABLED: the entry points, the PtxVersion
\* query of the outer Dispatch and the early return of the inner one
NextNoRuntime ==
    \/ \E ptr \in {NULL, Buffer}, bytes \in CallBytes, s \in Streams,
          dbg \in BOOLEAN : Reduce(ptr, bytes, reduction_op, s, dbg)
    \/ \E ptr \in {NULL, Buffer}, bytes \in CallBytes, s \in Streams,
          dbg \in BOOLEAN : reduction_op = "Sum" /\ Sum(ptr, bytes, s, dbg)
    \/ \E code \in QueryErrors : DispatchQueryFailure("PtxVersion", code)
    \/ DispatchNotSupported

SpecNoRuntime == Init /\ [][NextNoRuntime]_vars

\* the outer Dispatch up to its call of the inner one, for every answer of
\* PtxVersion: the two configurations are declared, then initialised
InitPolicy ==
    /\ ptx_version \in (-1)..MaxPtxVersion
    /\ reduce_tiles_config = NoConfig
    /\ single_tile_config = NoConfig
    /\ pc = "InitDispatchConfigs"
    /\ d_temp_storage = NULL
    /\ temp_storage_bytes = 0
    /\ num_items = 0
    /\ d_in = <<>>
    /\ d_out = Unwritten
    /\ reduction_op = "Sum"
    /\ history = <<>>
    /\ stream = DefaultStream
    /\ debug_synchronous = FALSE
    /\ reduce_tiles_kernel = "ReduceTilesKernel"
    /\ sm_count = Unqueried
    /\ reduce_tiles_sm_occupancy = Unqueried
    /\ error = cudaSuccess
    /\ calls = 1
    /\ launches = <<>>
    /\ syncs = 0
    /\ failed_query = <<>>
    /\ last_sizing = -1
    /\ reduce_tiles_grid_size = 0
    /\ allocations = <<>>
    /\ streamq = [s \in Streams |-> <<>>]
    /\ active = [s \in Streams |-> NoKernel]
    /\ blocks = <<>>
    /\ d_block_reductions = <<>>
    /\ queue \in StaleQueues
    /\ queue_reset = FALSE
    /\ claimed = {}
    /\ claim_count = 0
    /\ dev_error = cudaSuccess
    /\ last_error = cudaSuccess
    /\ out_writes = 0

\* InitDispatchConfigs(ptx_version, reduce_tiles_config, single_tile_config)
ConfigureDispatch ==
    /\ pc = "InitDispatchConfigs"
    /\ reduce_tiles_config' = InitDispatchConfigs(ptx_version).ReduceTilesPolicy
    /\ single_tile_config' = InitDispatchConfigs(ptx_version).SingleTilePolicy
    /\ pc' = "Dispatch"
    /\ UNCHANGED <<args, d_in, num_items, reduce_tiles_kernel, ptx_version,
                   reduction_op, history, answers, error, calls, syncs,
                   failed_query, last_sizing, reduce_tiles_grid_size,
                   allocations, launches, sched, memory, errors>>

NextPolicy == ConfigureDispatch

SpecPolicy == InitPolicy /\ [][NextPolicy]_vars

\* the dynamic policies of the file: ReduceTilesPolicy1B of Policy350 and
\* ReduceTilesPolicy4B of Policy200 (tile sizes 1536 and 1024)
DynamicConfigs ==
    {BlockReduceTilesPolicy(128, 12, 1, "BLOCK_REDUCE_RAKING", "LOAD_LDG",
                            GRID_MAPPING_DYNAMIC),
     BlockReduceTilesPolicy(128, 8, 4, "BLOCK_REDUCE_RAKING", "LOAD_DEFAULT",
                            GRID_MAPPING_DYNAMIC)}

\* the two-pass branch of a sizing call after its queries, under dynamic
\* mapping, for item counts just above the tile size and up to INT_MAX
InitTiles ==
    /\ reduce_tiles_config \in DynamicConfigs
    /\ num_items \in {tile_size + 1 + k : k \in 0..MaxDistance}
                      \cup {IntMax - k : k \in 0..MaxDistance}
    /\ \E dev \in Devices :
           /\ sm_count = dev.sm_count
           /\ reduce_tiles_sm_occupancy = dev.sm_occupancy
    /\ pc = "grid_size"
    /\ d_temp_storage = NULL
    /\ temp_storage_bytes = 0
    /\ d_in = <<>>
    /\ d_out = Unwritten
    /\ reduction_op = "Sum"
    /\ history = <<>>
    /\ stream = DefaultStream
    /\ debug_synchronous = FALSE
    /\ reduce_tiles_kernel = "ReduceTilesKernel"
    /\ single_tile_config \in SingleTileConfigs
    /\ ptx_version = Unqueried
    /\ error = cudaSuccess
    /\ calls = 1
    /\ launches = <<>>
    /\ syncs = 0
    /\ failed_query = <<>>
    /\ last_sizing = -1
    /\ reduce_tiles_grid_size = 0
    /\ allocations = <<>>
    /\ streamq = [s \in Streams |-> <<>>]
    /\ active = [s \in Streams |-> NoKernel]
    /\ blocks = <<>>
    /\ d_block_reductions = <<>>
    /\ queue \in StaleQueues
    /\ queue_reset = FALSE
    /\ claimed = {}
    /\ claim_count = 0
    /\ dev_error = cudaSuccess
    /\ last_error = cudaSuccess
    /\ out_writes = 0

\* case GRID_MAPPING_DYNAMIC: num_tiles and reduce_tiles_grid_size
ComputeGridSize ==
    /\ pc = "grid_size"
    /\ \E tiles \in NumTilesOutcomes :
           reduce_tiles_grid_size' = DynamicGridSize(tiles)
    /\ pc' = "allocate"
    /\ UNCHANGED <<args, input, answers, error, calls, syncs, failed_query,
                   last_sizing, allocations, launches, sched, memory, errors>>

\* allocation_sizes and AliasTemporaries of a sizing call: the size_t total,
\* kept modulo 2^64 (a negative grid size converts to size_t by adding 2^64)
ComputeAllocation ==
    /\ pc = "allocate"
    /\ temp_storage_bytes' =
           AliasBytesNeeded(<<reduce_tiles_grid_size * SizeofT,
                              GridQueueAllocationSize>>)
    /\ last_sizing' = temp_storage_bytes'
    /\ pc' = "idle"
    /\ UNCHANGED <<d_temp_storage, stream, debug_synchronous, input, answers,
                   error, calls, syncs, failed_query, reduce_tiles_grid_size,
                   allocations, launches, sched, memory, errors>>

NextTiles == ComputeGridSize \/ ComputeAllocation

SpecTiles == InitTiles /\ [][NextTiles]_vars

\* ------------------------------------------------------------------ claims

Returned == pc = "idle" /\ calls > 0
Finished == Returned /\ DeviceIdle
Sizing == calls > 0 /\ d_temp_storage = NULL
Execute == calls > 0 /\ d_temp_storage # NULL
Launched == 1..Len(launches)

\* every kernel that could be submitted was, and none failed executing
EnvironmentSound ==
    /\ dev_error = cudaSuccess
    /\ \A i \in Launched : launches[i].grid > 0 => launches[i].ok

\* the condition of the single-stage path, in the words of the claim
SingleStageCondition ==
    num_items <= tile_size \/ reduce_tiles_kernel = NULL

\* C1: for a non-empty input, once an execute-mode Dispatch has returned
\* success and its kernels have run (none of them failing), the output
\* holds the fold of the operator over all num_items items, on either path
\* and under either mapping.
C1_OutputIsFold ==
    (Finished /\ Execute /\ error = cudaSuccess /\ num_items > 0
        /\ EnvironmentSound)
    => d_out = Fold(reduction_op, d_in, 0, num_items)

\* C2: a sizing call (d_temp_storage NULL), for any num_items, submits no
\* kernel and writes no output element at any point, and, the device
\* queries answering, returns success with a required size > 0 written to
\* temp_storage_bytes (a failing query returns its own error, see C10).
C2_SizingQuery ==
    Sizing
    => /\ launches = <<>>
       /\ DeviceIdle
       /\ out_writes = 0 /\ d_out = Unwritten
       /\ (Returned /\ failed_query = <<>>)
              => (error = cudaSuccess /\ temp_storage_bytes > 0
                    /\ temp_storage_bytes = last_sizing)
       /\ (Returned /\ failed_query # <<>>) => error = failed_query[2]

C2_Witness ==
    Returned /\ Sizing /\ error = cudaSuccess /\ temp_storage_bytes > 1

\* C3: an execute-mode call made with a buffer of exactly the size the
\* sizing query returned (same num_items, configuration and device answers)
\* never returns InvalidScratchSize.
C3_SizedBufferBinds ==
    (Returned /\ Execute /\ last_sizing >= 0
        /\ temp_storage_bytes = last_sizing)
    => error # InvalidScratchSize

C3_Witness ==
    /\ Returned /\ Execute /\ last_sizing > 1
    /\ temp_storage_bytes = last_sizing
    /\ error = cudaSuccess
    /\ Len(launches) >= 2

\* C4 as stated: on either path, the device queries answering, an
\* execute-mode call whose buffer is smaller than the size the sizing query
\* returned yields InvalidScratchSize and submits no kernel.
C4_SmallBufferRejected ==
    (Returned /\ Execute /\ last_sizing >= 0
        /\ temp_storage_bytes < last_sizing /\ failed_query = <<>>)
    => (error = InvalidScratchSize /\ launches = <<>>)

\* C4 as amended: on the two-stage path, once the device queries have
\* succeeded, such a call yields InvalidScratchSize and submits no kernel;
\* on the single-stage path nothing is planned or checked and the Combine
\* kernel is launched.
C4_SmallBufferRejectedTwoStage ==
    (Returned /\ Execute /\ last_sizing >= 0
        /\ temp_storage_bytes < last_sizing /\ failed_query = <<>>)
    => IF SingleStageCondition
       THEN /\ error # InvalidScratchSize
            /\ allocations = <<>>
            /\ Len(launches) = 1
       ELSE /\ error = InvalidScratchSize
            /\ launches = <<>>
            /\ DeviceIdle

C4_Witness ==
    /\ Returned /\ Execute /\ ~SingleStageCondition
    /\ last_sizing > 1
    /\ temp_storage_bytes = last_sizing - 1
    /\ error = InvalidScratchSize

\* C5: an execute-mode Dispatch launches only the Combine kernel, over the
\* raw input, exactly when num_items <= tile_size or there is no
\* partial-reduction kernel, and otherwise never launches it over the raw
\* input and starts the two-stage sequence; at num_items = tile_size and
\* tile_size + 1 the call fails only for a short buffer or, in debug mode,
\* a kernel that failed executing.
C5_PathSelection ==
    (Returned /\ Execute /\ failed_query = <<>>)
    => /\ SingleStageCondition
            => /\ Len(launches) = 1
               /\ launches[1].kernel = "single_kernel"
               /\ launches[1].grid = 1
               /\ launches[1].arg = num_items
       /\ ~SingleStageCondition
            => /\ \A i \in Launched : launches[i].kernel # "single_kernel"
               /\ error # InvalidScratchSize
                    => /\ launches # <<>>
                       /\ launches[1].kernel \in
                              {"prepare_drain_kernel", "reduce_tiles_kernel"}
       /\ (num_items \in {tile_size, tile_size + 1} /\ error # cudaSuccess)
            => \/ error = InvalidScratchSize
               \/ /\ debug_synchronous
                  /\ error = cudaErrorLaunchFailure
                  /\ dev_error = cudaErrorLaunchFailure

C5_Witness ==
    /\ Returned /\ Execute
    /\ num_items = tile_size + 1
    /\ reduce_tiles_kernel # NULL
    /\ error = cudaSuccess
    /\ Len(launches) >= 2
    /\ launches[Len(launches)].kernel = "aggregate_kernel"

\* the launches of the two-stage path, in order
TwoStageOrder ==
    IF reduce_tiles_config.grid_mapping = GRID_MAPPING_DYNAMIC
    THEN <<"prepare_drain_kernel", "reduce_tiles_kernel", "aggregate_kernel">>
    ELSE <<"reduce_tiles_kernel", "aggregate_kernel">>

Pending(kernel) ==
    \E s \in Streams :
        \/ active[s].kernel = kernel
        \/ \E i \in 1..Len(streamq[s]) : streamq[s][i].kernel = kernel

\* C6: on the two-stage path the launches are the drain reset (only under
\* dynamic mapping), then the partial reduction, then the Combine kernel;
\* no block of the partial reduction runs before the reset has retired, and
\* while the Combine kernel runs the partial reduction has retired, every
\* block of it having written its partial.
C6_LaunchOrder ==
    (launches # <<>> /\ launches[1].kernel # "single_kernel")
    => /\ Len(launches) <= Len(TwoStageOrder)
       /\ \A i \in Launched : launches[i].kernel = TwoStageOrder[i]
       /\ (\E s \in Streams : active[s].kernel = "reduce_tiles_kernel")
            => ~Pending("prepare_drain_kernel")
       /\ (\E s \in Streams : active[s].kernel = "aggregate_kernel")
            => /\ ~Pending("reduce_tiles_kernel")
               /\ ~Pending("prepare_drain_kernel")
               /\ (dev_error = cudaSuccess
                     /\ \E i \in Launched :
                            /\ launches[i].kernel = "reduce_tiles_kernel"
                            /\ launches[i].ok)
                    => \A b \in 0..(reduce_tiles_grid_size - 1) :
                           d_block_reductions[b] # Unwritten

C6_Witness ==
    /\ \E s \in Streams : active[s].kernel = "aggregate_kernel"
    /\ stream # DefaultStream
    /\ Len(launches) = 3
    /\ reduce_tiles_grid_size >= 2
    /\ \A b \in 0..(reduce_tiles_grid_size - 1) :
           d_block_reductions[b] \notin {Unwritten, Undefined}

\* C7: every launch of a Dispatch call is issued onto the stream the caller
\* passed in the stream argument.
C7_OneStream ==
    \A i \in Launched : launches[i].stream = stream

\* C8: under dynamic mapping no tile is handed out twice, the tiles handed
\* out at any moment are the first claim_count tiles (none is skipped), and
\* once all blocks of a partial reduction that followed the reset are done
\* the tiles handed out are exactly the num_tiles tiles of the input.
C8_DrainQueueExact ==
    reduce_tiles_config.grid_mapping = GRID_MAPPING_DYNAMIC
    => /\ claim_count = Cardinality(claimed)
       /\ claimed = {k * tile_size : k \in 0..(claim_count - 1)}
       /\ (/\ queue_reset
           /\ \E s \in Streams : active[s].kernel = "reduce_tiles_kernel"
           /\ DOMAIN blocks # {}
           /\ \A b \in DOMAIN blocks : blocks[b].pc = "done")
            => claimed = {k * tile_size : k \in 0..(num_tiles - 1)}

C8_Witness ==
    /\ reduce_tiles_config.grid_mapping = GRID_MAPPING_DYNAMIC
    /\ queue_reset
    /\ \E s \in Streams : active[s].kernel = "reduce_tiles_kernel"
    /\ num_tiles >= 3
    /\ tile_size > 1 \/ num_items = MaxItems
    /\ \A b \in DOMAIN blocks : blocks[b].pc = "done"
    /\ \E b, c \in DOMAIN blocks :
           /\ b # c
           /\ blocks[b].block_aggregate # Unwritten
           /\ blocks[c].block_aggregate # Unwritten

\* C9: a launch that fails is the last launch of the call, and the call
\* returns a failure, whether or not debug_synchronous is set.
C9_LaunchFailureAborts ==
    /\ \A i \in Launched : ~launches[i].ok => i = Len(launches)
    /\ (Returned /\ \E i \in Launched : ~launches[i].ok)
         => error # cudaSuccess

\* C10: when a device query fails, Dispatch returns the code of that query
\* unchanged and the call has submitted no kernel.
C10_QueryFailurePropagates ==
    failed_query # <<>>
    => /\ pc = "idle"
       /\ error = failed_query[2]
       /\ launches = <<>>
       /\ DeviceIdle
       /\ out_writes = 0 /\ d_out = Unwritten

C10_Witness ==
    /\ Returned /\ Execute
    /\ failed_query # <<>>
    /\ failed_query[1] = "MaxSmOccupancy"
    /\ error \in QueryErrors

\* C11: once a sizing query has returned a size, every later sizing query
\* of the behaviour (same num_items, element type, operator and device
\* answers) returns that same size, whatever calls were made in between.
C11_SizingIdempotent ==
    [][last_sizing >= 0 => last_sizing' = last_sizing]_vars

C11_Witness ==
    /\ Returned /\ Sizing /\ error = cudaSuccess
    /\ calls = 2
    /\ history = <<"sizing">>
    /\ last_sizing > 1
    /\ temp_storage_bytes = last_sizing

\* C12: an execute-mode call with num_items = 0 (the device queries
\* answering) submits exactly one launch, the Combine kernel with one block
\* over 0 items, no drain reset and no partial reduction, and asks the
\* device for neither its multiprocessor count nor its occupancy.
C12_EmptyInputSingleStage ==
    (num_items = 0 /\ Execute)
    => /\ \A i \in Launched :
              /\ launches[i].kernel = "single_kernel"
              /\ launches[i].grid = 1
              /\ launches[i].arg = 0
       /\ Len(launches) <= 1
       /\ (Returned /\ failed_query = <<>>) => Len(launches) = 1
       /\ sm_count = Unqueried /\ reduce_tiles_sm_occupancy = Unqueried
       /\ failed_query # <<>> => failed_query[1] = "PtxVersion"
       /\ ~Pending("prepare_drain_kernel") /\ ~Pending("reduce_tiles_kernel")

C12_Witness ==
    /\ num_items = 0 /\ Execute /\ Finished
    /\ reduce_tiles_kernel # NULL
    /\ error = cudaSuccess
    /\ Len(launches) = 1
    /\ out_writes = 1

Active(kernel) == \E s \in Streams : active[s].kernel = kernel

\* C13: a DYNAMIC two-stage call whose kernels are submitted and run does
\* not depend on what earlier calls (or anything else) left in the scratch
\* buffer: its blocks start on a queue this call has reset (counter 0, fill
\* size of this call), the Combine kernel reads only partials written in
\* this call, and its output is the fold of this call's input whenever
\* every block had a tile.
C13_CallsIndependent ==
    (reduce_tiles_config.grid_mapping = GRID_MAPPING_DYNAMIC
        /\ EnvironmentSound)
    => /\ Active("reduce_tiles_kernel")
            => /\ queue_reset
               /\ queue.fill = num_items
               /\ claim_count = 0 => queue.counter = 0
               /\ claim_count > 0 => 0 \in claimed
       /\ Active("aggregate_kernel")
            => \A b \in 0..(reduce_tiles_grid_size - 1) :
                   d_block_reductions[b] # Unwritten
       /\ (Finished /\ Execute /\ error = cudaSuccess
             /\ ~SingleStageCondition /\ failed_query = <<>>
             /\ reduce_tiles_grid_size > 0
             /\ \A b \in 0..(reduce_tiles_grid_size - 1) :
                    d_block_reductions[b] # Undefined)
            => d_out = Fold(reduction_op, d_in, 0, num_items)

C13_Witness ==
    /\ reduce_tiles_config.grid_mapping = GRID_MAPPING_DYNAMIC
    /\ EnvironmentSound
    /\ calls = 2
    /\ Finished /\ Execute /\ error = cudaSuccess
    /\ queue_reset
    /\ claim_count >= 2
    /\ d_out = Fold(reduction_op, d_in, 0, num_items)

\* C14: in the build without CUB_RUNTIME_ENABLED no call submits a kernel
\* or writes output, Dispatch leaves temp_storage_bytes as it was passed,
\* and every call returns an error, cudaErrorNotSupported once the
\* PtxVersion query of the outer Dispatch has answered.
C14_NotSupported ==
    /\ [](calls > 0
            => /\ launches = <<>>
               /\ DeviceIdle
               /\ d_out = Unwritten /\ out_writes = 0
               /\ last_sizing = -1
               /\ Returned => error # cudaSuccess
               /\ (Returned /\ failed_query = <<>>)
                      => error = cudaErrorNotSupported)
    /\ [][InEntry => temp_storage_bytes' = temp_storage_bytes]_vars

C14_Witness ==
    /\ Returned /\ Execute
    /\ ~SingleStageCondition
    /\ temp_storage_bytes = LargeBuffer
    /\ error = cudaErrorNotSupported

Planned ==
    /\ calls > 0
    /\ ~SingleStageCondition
    /\ failed_query = <<>>
    /\ pc \notin {"Reduce", "Sum", "plan"}

\* ceil(a / b) for a >= 0, b > 0
CeilDiv(a, b) == CHOOSE k \in 0..a : (k - 1) * b < a /\ a <= k * b

\* per-unit occupancy x number of execution units
DeviceOccupancy == reduce_tiles_sm_occupancy * sm_count

\* occupancy x oversubscription factor (the per-unit occupancy)
TargetGroupCount == DeviceOccupancy * reduce_tiles_sm_occupancy

\* C16 as stated: under DYNAMIC mapping the grid size of the partial
\* reduction is min(num_tiles, occupancy x oversubscription factor).
C16_DynamicGridOversubscribed ==
    (Planned /\ reduce_tiles_config.grid_mapping = GRID_MAPPING_DYNAMIC)
    => reduce_tiles_grid_size =
           Min(CeilDiv(num_items, tile_size), TargetGroupCount)

\* C16 as amended: under DYNAMIC mapping the grid size of the partial
\* reduction is min(num_tiles, occupancy), with num_tiles =
\* ceil(num_items / tile_size) and occupancy = per-unit occupancy x number
\* of execution units; the oversubscription factor does not enter it.
C16_DynamicGridOccupancy ==
    (Planned /\ reduce_tiles_config.grid_mapping = GRID_MAPPING_DYNAMIC)
    => /\ reduce_tiles_grid_size =
              Min(CeilDiv(num_items, tile_size), DeviceOccupancy)
       /\ \A i \in Launched :
              launches[i].kernel = "reduce_tiles_kernel"
                  => launches[i].grid =
                         Min(CeilDiv(num_items, tile_size), DeviceOccupancy)

C16_Witness ==
    /\ Planned /\ reduce_tiles_config.grid_mapping = GRID_MAPPING_DYNAMIC
    /\ reduce_tiles_sm_occupancy = 2
    /\ CeilDiv(num_items, tile_size) = 3
    /\ reduce_tiles_grid_size = 2
    /\ \E i \in Launched : launches[i].kernel = "reduce_tiles_kernel"

\* all blocks of the executing partial reduction are done
StageDone ==
    /\ Active("reduce_tiles_kernel")
    /\ DOMAIN blocks # {}
    /\ \A b \in DOMAIN blocks : blocks[b].pc = "done"

\* C17 as stated: the drain reset primes the queue with the tile count
\* ceil(num_items / tile_size), and the blocks together claim exactly that
\* many tiles.
C17_DrainPrimedWithTileCount ==
    (reduce_tiles_config.grid_mapping = GRID_MAPPING_DYNAMIC /\ queue_reset)
    => /\ queue.fill = CeilDiv(num_items, tile_size)
       /\ StageDone => claim_count = CeilDiv(num_items, tile_size)

\* C17 as amended: the drain reset primes the queue with num_items, the
\* item count; each claim advances the counter by tile_size, the queue is
\* exhausted exactly when ceil(num_items / tile_size) tiles have been
\* claimed, and that is the number of tiles the blocks have claimed when
\* the stage is done.
C17_DrainPrimedWithItemCount ==
    (reduce_tiles_config.grid_mapping = GRID_MAPPING_DYNAMIC /\ queue_reset)
    => /\ queue.fill = num_items
       /\ queue.counter = claim_count * tile_size
       /\ claim_count <= CeilDiv(num_items, tile_size)
       /\ QueueExhausted <=> claim_count = CeilDiv(num_items, tile_size)
       /\ StageDone => claim_count = CeilDiv(num_items, tile_size)

C17_Witness ==
    /\ reduce_tiles_config.grid_mapping = GRID_MAPPING_DYNAMIC /\ queue_reset
    /\ tile_size = 2 /\ num_items = 3
    /\ StageDone
    /\ claim_count = 2
    /\ QueueExhausted

DrainLaunches == {i \in Launched : launches[i].kernel = "prepare_drain_kernel"}

\* C18: a DYNAMIC two-stage call submits the drain reset exactly once, as a
\* launch of one block of one thread, before the partial reduction; when
\* that launch was submitted and ran, no block of the partial reduction
\* runs before the reset has completed, so every claim is made on the reset
\* queue.
C18_ResetOnceBeforeClaims ==
    reduce_tiles_config.grid_mapping = GRID_MAPPING_DYNAMIC
    => /\ Cardinality(DrainLaunches) <= 1
       /\ \A i \in DrainLaunches :
              i = 1 /\ launches[i].grid = 1 /\ launches[i].block = 1
       /\ (\E i \in Launched : launches[i].kernel = "reduce_tiles_kernel")
              => Cardinality(DrainLaunches) = 1
       /\ (Active("reduce_tiles_kernel") /\ launches[1].ok
             /\ dev_error = cudaSuccess)
              => /\ queue_reset
                 /\ ~Pending("prepare_drain_kernel")
                 /\ queue.counter = claim_count * tile_size

C18_Witness ==
    /\ reduce_tiles_config.grid_mapping = GRID_MAPPING_DYNAMIC
    /\ stream # DefaultStream
    /\ Active("reduce_tiles_kernel")
    /\ launches[1].kernel = "prepare_drain_kernel" /\ launches[1].ok
    /\ queue_reset
    /\ claim_count >= 1

\* C19: under EVEN_SHARE mapping no drain reset is submitted, no block
\* claims from the queue, and no step of any call changes the queue
\* descriptor.
C19_EvenShareLeavesQueue ==
    /\ [](reduce_tiles_config.grid_mapping = GRID_MAPPING_EVEN_SHARE
            => /\ DrainLaunches = {}
               /\ ~Pending("prepare_drain_kernel")
               /\ ~queue_reset
               /\ claim_count = 0 /\ claimed = {})
    /\ [][reduce_tiles_config.grid_mapping = GRID_MAPPING_EVEN_SHARE
            => queue' = queue]_vars

C19_Witness ==
    /\ reduce_tiles_config.grid_mapping = GRID_MAPPING_EVEN_SHARE
    /\ Finished /\ Execute /\ error = cudaSuccess
    /\ Len(launches) = 2
    /\ reduce_tiles_grid_size >= 2
    /\ d_out = Fold(reduction_op, d_in, 0, num_items)
    /\ queue \in StaleQueues

\* the items block b is assigned by the even-share plan
Run(b) ==
    {i \in 0..(num_items - 1) :
        /\ b * even_share.tiles_per_group * tile_size <= i
        /\ i < (b + 1) * even_share.tiles_per_group * tile_size}

\* the items whose values (1, 2, 4, ...) add up to v
Items(v) == {i \in 0..(num_items - 1) : (v \div Pow2(i)) % 2 = 1}

\* C20: under EVEN_SHARE mapping with a target group count >= 1 the plan
\* has 1 <= grid_size <= target_group_count, gives every block a non-empty
\* contiguous run of whole tiles, only the last run being possibly short,
\* the runs cover every item exactly once, and each block sums exactly the
\* items of its run.
C20_EvenSharePlan ==
    (Planned /\ reduce_tiles_config.grid_mapping = GRID_MAPPING_EVEN_SHARE
        /\ TargetGroupCount >= 1)
    => LET g == reduce_tiles_grid_size
           share == even_share.tiles_per_group * tile_size
       IN  /\ g = even_share.grid_size
           /\ 1 <= g /\ g <= TargetGroupCount
           /\ even_share.tiles_per_group >= 1
           /\ \A i \in 0..(num_items - 1) :
                  Cardinality({b \in 0..(g - 1) : i \in Run(b)}) = 1
           /\ \A b \in 0..(g - 1) : Run(b) # {}
           /\ \A b \in 0..(g - 2) : Cardinality(Run(b)) = share
           /\ (StageDone /\ reduction_op = "Sum")
                  => /\ DOMAIN blocks = 0..(g - 1)
                     /\ \A b \in 0..(g - 1) :
                            Items(d_block_reductions[b]) = Run(b)

C20_Witness ==
    /\ Planned /\ reduce_tiles_config.grid_mapping = GRID_MAPPING_EVEN_SHARE
    /\ TargetGroupCount >= 2
    /\ num_items = 3 /\ tile_size = 2
    /\ reduce_tiles_grid_size = 2
    /\ StageDone /\ reduction_op = "Sum"
    /\ d_block_reductions[1] = 4

\* C21: while the partial reduction runs there is one block and one
\* partials element per index 0..reduce_tiles_grid_size-1; a block has
\* finished exactly when the element at its own index has been written;
\* every write of the stage is the single write of one block to its own,
\* still unwritten, element; the stage ends only with every element
\* written; and the stage never writes the caller's output.
C21_OnePartialPerBlock ==
    /\ [](Active("reduce_tiles_kernel")
            => /\ DOMAIN blocks = 0..(reduce_tiles_grid_size - 1)
               /\ DOMAIN d_block_reductions = DOMAIN blocks
               /\ \A b \in DOMAIN blocks :
                      blocks[b].pc = "done"
                          <=> d_block_reductions[b] # Unwritten)
    /\ [][Active("reduce_tiles_kernel")
            => /\ d_out' = d_out /\ out_writes' = out_writes
               /\ DOMAIN d_block_reductions' = DOMAIN d_block_reductions
               /\ d_block_reductions' # d_block_reductions
                      => \E b \in DOMAIN blocks :
                             /\ blocks[b].pc = "consume"
                             /\ blocks'[b].pc = "done"
                             /\ d_block_reductions[b] = Unwritten
                             /\ d_block_reductions'[b] # Unwritten
                             /\ \A c \in DOMAIN blocks \ {b} :
                                    d_block_reductions'[c] =
                                        d_block_reductions[c]
               /\ ~Active("reduce_tiles_kernel")'
                      => \A b \in 0..(reduce_tiles_grid_size - 1) :
                             d_block_reductions[b] # Unwritten]_vars

C21_Witness ==
    /\ Active("reduce_tiles_kernel")
    /\ reduce_tiles_grid_size = 3
    /\ \A b \in 0..2 : blocks[b].pc = "done"
    /\ \A b \in 0..2 : d_block_reductions[b] = Pow2(b)
    /\ d_out = Unwritten /\ out_writes = 0

\* the launches of SingleTileKernel, the Combine stage, in this call
CombineLaunches ==
    {i \in Launched : launches[i].kernel \in {"single_kernel", "aggregate_kernel"}}

\* C22: an execute-mode call that has returned success launched the
\* Combine kernel exactly once, as its last launch, with a grid of one
\* block: on the single-stage path single_kernel over the num_items input
\* items and nothing else, on the two-stage path aggregate_kernel over the
\* reduce_tiles_grid_size partials; no call writes the output more than
\* once, and when the launches were submitted and ran the output was
\* written exactly once.
C22_CombineOnce ==
    /\ out_writes <= 1
    /\ (Returned /\ Execute /\ error = cudaSuccess)
        => /\ Cardinality(CombineLaunches) = 1
           /\ \A i \in CombineLaunches :
                  /\ i = Len(launches)
                  /\ launches[i].grid = 1
                  /\ IF SingleStageCondition
                     THEN /\ launches[i].kernel = "single_kernel"
                          /\ launches[i].arg = num_items
                          /\ Len(launches) = 1
                     ELSE /\ launches[i].kernel = "aggregate_kernel"
                          /\ launches[i].arg = reduce_tiles_grid_size
                          /\ launches[i - 1].kernel = "reduce_tiles_kernel"
           /\ (Finished /\ EnvironmentSound) => out_writes = 1

C22_Witness ==
    /\ Finished /\ Execute /\ error = cudaSuccess
    /\ ~SingleStageCondition
    /\ Len(launches) = 3
    /\ launches[3].kernel = "aggregate_kernel" /\ launches[3].arg = 2
    /\ out_writes = 1
    /\ d_out = Fold(reduction_op, d_in, 0, num_items)

\* the bytes lo..hi-1 of the caller's buffer
Region(lo, size) == lo..(lo + size - 1)

\* C23: whenever the two-pass branch has bound the scratch buffer, the
\* partials array has exactly one element per block of the partial
\* reduction it launches, and the bytes of the partials array and the bytes
\* of the queue descriptor lie inside the caller's buffer and do not
\* overlap.
C23_ScratchSlices ==
    allocations # <<>>
    => LET partials == Region(allocations[1], reduce_tiles_grid_size * SizeofT)
           descriptor == Region(allocations[2], GridQueueAllocationSize)
       IN  /\ Len(allocations) = 2
           /\ DOMAIN d_block_reductions = 0..(reduce_tiles_grid_size - 1)
           /\ \A i \in Launched :
                  launches[i].kernel = "reduce_tiles_kernel"
                      => launches[i].grid = Cardinality(DOMAIN d_block_reductions)
           /\ partials \subseteq 0..(temp_storage_bytes - 1)
           /\ descriptor \subseteq 0..(temp_storage_bytes - 1)
           /\ partials \cap descriptor = {}

C23_Witness ==
    /\ allocations = <<0, 16>>
    /\ reduce_tiles_grid_size = 3
    /\ temp_storage_bytes = 24
    /\ Active("reduce_tiles_kernel")

\* C24: with debug_synchronous set every launch is followed by one
\* SyncStream before the next launch or the return, a SyncStream that
\* reports an error ends the call with that error and without a further
\* launch, and a call that returns success has seen every kernel launched
\* on its stream complete; with debug_synchronous clear Dispatch never
\* calls SyncStream.
C24_DebugSynchronous ==
    /\ [](calls > 0 =>
            IF debug_synchronous
            THEN /\ syncs <= Len(launches) /\ Len(launches) <= syncs + 1
                 /\ pc \in DOMAIN AfterSync <=> Len(launches) = syncs + 1
                 /\ (Returned /\ error = cudaSuccess
                       /\ \A i \in Launched : launches[i].stream = stream)
                        => (DeviceIdle /\ dev_error = cudaSuccess)
            ELSE syncs = 0 /\ pc \notin DOMAIN AfterSync)
    /\ [][(syncs' = syncs + 1 /\ dev_error # cudaSuccess)
            => /\ pc' = "idle"
               /\ error' = dev_error
               /\ launches' = launches]_vars

C24_Witness ==
    /\ debug_synchronous
    /\ Returned
    /\ reduce_tiles_config.grid_mapping = GRID_MAPPING_DYNAMIC
    /\ Len(launches) = 2 /\ syncs = 2
    /\ launches[2].ok
    /\ error = cudaErrorLaunchFailure

\* the minimum generations of the policy families and their policies
PolicyFamilies ==
    (350 :> Policy350) @@ (300 :> Policy300) @@ (200 :> Policy200) @@
    (130 :> Policy130)

\* C25: for every answer of PtxVersion the two configurations are those of
\* the family with the highest minimum generation (350, 300, 200, 130) not
\* above the answer, and those of the oldest family (100) when there is
\* none; the selection always yields a pair of policies.
C25_PolicySelection ==
    pc = "Dispatch"
    => LET known == {m \in DOMAIN PolicyFamilies : m <= ptx_version}
           family == IF known = {}
                     THEN Policy100
                     ELSE PolicyFamilies[CHOOSE m \in known :
                                             \A k \in known : k <= m]
       IN  /\ reduce_tiles_config = family.ReduceTilesPolicy
           /\ single_tile_config = family.SingleTilePolicy
           /\ reduce_tiles_config # NoConfig
           /\ single_tile_config # NoConfig
           /\ ptx_version > 350
                  => reduce_tiles_config = Policy350.ReduceTilesPolicy
           /\ ptx_version < 130
                  => reduce_tiles_config = Policy100.ReduceTilesPolicy

C25_Witness ==
    /\ pc = "Dispatch"
    /\ ptx_version = 350
    /\ reduce_tiles_config.block_threads = 512
    /\ single_tile_config.items_per_thread = 8

\* C26: from the drain reset of a call on, every step that changes the
\* queue descriptor is a claim by a block of the running partial reduction
\* under DYNAMIC mapping: it raises the counter by one tile and leaves the
\* fill size, the host and the output alone; so the counter never
\* decreases, and neither Dispatch nor the Combine kernel nor an even-share
\* block changes it.
C26_CounterOnlyClaimed ==
    [][queue_reset
         => /\ queue'.counter >= queue.counter
            /\ queue' # queue
                 => /\ reduce_tiles_config.grid_mapping = GRID_MAPPING_DYNAMIC
                    /\ Active("reduce_tiles_kernel")
                    /\ queue' = [queue EXCEPT !.counter = @ + tile_size]
                    /\ claim_count' = claim_count + 1
                    /\ \E b \in DOMAIN blocks :
                           /\ blocks[b].pc = "consume"
                           /\ blocks'[b].pc = "consume"
                           /\ \A c \in DOMAIN blocks \ {b} :
                                  blocks'[c] = blocks[c]
                    /\ UNCHANGED <<pc, launches, d_out, out_writes,
                                   d_block_reductions>>]_vars

C26_Witness ==
    /\ queue_reset
    /\ Finished /\ error = cudaSuccess
    /\ num_items = 3 /\ tile_size = 2
    /\ queue = [fill |-> 3, counter |-> 4]
    /\ out_writes = 1

\* C27: with the host thread running, every stream served and every block
\* scheduled, every call that was entered returns a status, everything
\* submitted to the device is eventually off it (run or failed), every
\* block of a running partial reduction stores its partial, and a
\* submitted Combine kernel writes the output unless a kernel fails.
C27_Termination ==
    /\ (calls > 0 /\ pc # "idle") ~> Returned
    /\ (~DeviceIdle) ~> DeviceIdle
    /\ \A b \in 0..(MaxItems - 1) :
           (Active("reduce_tiles_kernel") /\ b \in DOMAIN blocks
               /\ blocks[b].pc = "consume")
           ~> (b \in DOMAIN blocks /\ blocks[b].pc = "done"
                 /\ d_block_reductions[b] # Unwritten)
    /\ Pending("aggregate_kernel")
           ~> (out_writes = 1 \/ dev_error # cudaSuccess)

C27_Witness ==
    /\ reduce_tiles_config.grid_mapping = GRID_MAPPING_DYNAMIC
    /\ Finished /\ Execute /\ error = cudaSuccess
    /\ debug_synchronous /\ syncs = 3
    /\ reduce_tiles_grid_size = 3
    /\ claim_count = 3
    /\ \A b \in 0..2 : blocks[b].pc = "done"
    /\ out_writes = 1

\* C28: once the two-pass branch has bound the scratch buffer, the number
\* of elements requested for the partials array, the grid of every
\* reduce_tiles_kernel launch and the item count of every aggregate_kernel
\* launch all equal reduce_tiles_grid_size; and when the launches were
\* submitted and ran, every element the running aggregate_kernel reads lies
\* in the partials array and has been written by a block of this call.
C28_OneGridSize ==
    allocations # <<>>
    => /\ allocation_sizes[1] = reduce_tiles_grid_size * SizeofT
       /\ Cardinality(DOMAIN d_block_reductions) = reduce_tiles_grid_size
       /\ \A i \in Launched :
              /\ launches[i].kernel = "reduce_tiles_kernel"
                     => launches[i].grid = reduce_tiles_grid_size
              /\ launches[i].kernel = "aggregate_kernel"
                     => launches[i].arg = reduce_tiles_grid_size
       /\ \A s \in Streams :
              (active[s].kernel = "aggregate_kernel" /\ EnvironmentSound)
                  => \A b \in 0..(active[s].arg - 1) :
                         /\ b \in DOMAIN d_block_reductions
                         /\ d_block_reductions[b] # Unwritten
                         /\ blocks[b].pc = "done"

C28_Witness ==
    /\ Active("aggregate_kernel")
    /\ EnvironmentSound
    /\ CeilDiv(num_items, tile_size) = 3
    /\ reduce_tiles_grid_size = 2
    /\ \A b \in 0..1 : d_block_reductions[b] # Unwritten

\* C29: under DYNAMIC mapping, when the launches were submitted and ran,
\* every block of the partial reduction that has stored its partial has
\* folded at least one tile into it, so no element of the partials array
\* holds an uninitialised aggregate.
C29_EveryBlockFolds ==
    (reduce_tiles_config.grid_mapping = GRID_MAPPING_DYNAMIC
        /\ EnvironmentSound /\ queue_reset)
    => \A b \in DOMAIN blocks :
           blocks[b].pc = "done"
               => /\ blocks[b].block_aggregate # Unwritten
                  /\ d_block_reductions[b] # Undefined

\* C30: once the two-pass branch has planned (its queries answered), the
\* grid size of the partial reduction is at least 1 and at most the number
\* of tiles, under either mapping; no reduce_tiles_kernel launch has a grid
\* of 0 and no aggregate_kernel launch combines 0 partials.
C30_GridAtLeastOne ==
    Planned
    => /\ 1 <= reduce_tiles_grid_size
       /\ reduce_tiles_grid_size <= CeilDiv(num_items, tile_size)
       /\ \A i \in Launched :
              /\ launches[i].kernel = "reduce_tiles_kernel"
                     => launches[i].grid >= 1
              /\ launches[i].kernel = "aggregate_kernel"
                     => launches[i].arg >= 1

\* a size_t kept modulo 2^64 is positive unless it is 0
SizeTPositive(bytes) == bytes # 0

\* C31: for every num_items of the index type for which Dispatch computes
\* the tile count, on a device with an occupancy above 0, the sum
\* num_items + tile_size did not overflow, the tile count is
\* ceil(num_items / tile_size), so that the grid size is the smaller of it
\* and the occupancy and at least 1, and the scratch size is positive.
C31_TileCountExact ==
    (pc \in {"allocate", "idle"} /\ reduce_tiles_occupancy > 0)
    => /\ ~Overflows(num_items, tile_size)
       /\ \A tiles \in NumTilesOutcomes :
              /\ tiles >= 1
              /\ (tiles - 1) * tile_size < num_items
              /\ num_items - tile_size <= (tiles - 1) * tile_size
       /\ reduce_tiles_grid_size >= 1
       /\ reduce_tiles_grid_size <= reduce_tiles_occupancy
       /\ pc = "idle" => SizeTPositive(temp_storage_bytes)

====
